---- MODULE Spec2Model ----
(***************************************************************************)
(* A model of txgen.py: WalletSimulator, the UTXO-tracking generator of a  *)
(* synthetic transaction ledger over three wallets (A invoicing,           *)
(* B treasury, C checking).                                                *)
(*                                                                         *)
(* Python dicts are TLA+ records that carry exactly the keys the code      *)
(* sets, lists are sequences (utxos['C'][0] is utxos["C"][1]), and every   *)
(* call of the random module is a choice (\E) from a small named set of    *)
(* the values the call can return.  A run is the constructor's exchange    *)
(* rate loop followed by main(): one action per phase prologue, per loop   *)
(* iteration and per phase epilogue (Spec).  AggregatorSpec runs           *)
(* save_all_transactions alone, on any short log.                          *)
(*                                                                         *)
(* Amounts are scaled: COIN, the exchange rate and the fiat bands are      *)
(* small integers in the proportions that make every branch of the code    *)
(* reachable.  Decimal and float values are exact rationals [num, den];    *)
(* the 8-digit Decimal context rounding is not modelled.                   *)
(***************************************************************************)
EXTENDS Integers, Sequences, FiniteSets, TLC

VARIABLES
    pc,                \* position of main() in the run
    wallets,           \* self.wallets: wallet id -> [name, addresses]
    exchange_rates,    \* self.exchange_rates: date -> rate
    rate_walk,         \* _generate_exchange_rates: [current_date, base_rate, draws]
    transactions,      \* self.transactions: the global transaction log
    utxos,             \* self.utxos: wallet id -> list of live UTXO records
    txs,               \* the running phase's local list (txs / consolidated_txs / transactions)
    curr_block_height, \* the running phase's local block height counter
    i,                 \* the running loop's index
    utxo_chunks,       \* consolidation: the chunks not yet visited, as [period, i, chunk]
    summary            \* the summary save_all_transactions computes

vars == <<pc, wallets, exchange_rates, rate_walk, transactions, utxos, txs,
          curr_block_height, i, utxo_chunks, summary>>

-----------------------------------------------------------------------------
(* Bounds of the model: the code's workload sizes, scaled down.            *)

\* invoices generated (range(10000) in the code)
NumInvoices == 3
\* vendor payments generated (range(20) in the code)
NumVendorPayments == 2
\* treasury outgoing payments generated (range(5) in the code)
NumOutgoing == 2
\* consolidation chunks per two-month period below period 5 (16 in the code;
\* the last period has one more)
NumConsolidations == 2
\* subunits per unit (bitcoin.core.COIN, 100000000, scaled)
COIN == 4

WalletIds == <<"A", "B", "C">>

\* number of addresses generate_wallets derives per wallet (10000 for A, 100
\* for the others in the code)
NumAddresses(wallet_id) == IF wallet_id = "A" THEN 1 ELSE 1

-----------------------------------------------------------------------------
(* Generic helpers over sequences.                                         *)

Range(s) == {s[k] : k \in DOMAIN s}

RECURSIVE SumSeq(_)
SumSeq(s) == IF s = <<>> THEN 0 ELSE s[1] + SumSeq(Tail(s))

Max(S) == CHOOSE m \in S : \A n \in S : n <= m

Abs(n) == IF n < 0 THEN 0 - n ELSE n

\* [f(x) for x in s]
Map(s, f(_)) == [k \in 1..Len(s) |-> f(s[k])]

\* [x for x in s if p(x)]
Filter(s, p(_)) == SelectSeq(s, p)

\* list.sort(key=...) / sorted(key=...) as the order of the indexes: a stable
\* sort, ascending in key; keys[j] is the key of the j-th element.  The j-th
\* element lands after every element of smaller key and every earlier element
\* of equal key.
SortedIndexes(keys) ==
    LET rank(j) == 1 + Cardinality({m \in DOMAIN keys :
                                      \/ keys[m] < keys[j]
                                      \/ keys[m] = keys[j] /\ m < j})
    IN  [k \in 1..Len(keys) |-> CHOOSE j \in DOMAIN keys : rank(j) = k]

SortByKey(s, key(_)) ==
    LET order == SortedIndexes(Map(s, key)) IN [k \in 1..Len(s) |-> s[order[k]]]

-----------------------------------------------------------------------------
(* Calendar: a date of the start year is its day of the year (1 = Jan 1),  *)
(* so the order of the ISO strings the code sorts by is the integer order. *)

MonthLengths == <<31, 29, 31, 30, 31, 30, 31, 31, 30, 31, 30, 31>>

\* the days of the year before each month
DaysBeforeMonth == [month \in 1..12 |-> SumSeq(SubSeq(MonthLengths, 1, month - 1))]

DaysBefore(month) == DaysBeforeMonth[month]

\* datetime.date(year, month, day)
MkDate(month, day) == DaysBefore(month) + day

\* date.month
MonthOf(date) == CHOOSE m \in 1..12 : DaysBefore(m) < date /\ date <= DaysBefore(m) + MonthLengths[m]

\* self.start_date, self.end_date: a run over four days that span the last
\* two two-month periods of the year, so that dates inside the rate table and
\* dates outside it (served by the closest date) both occur
StartDate == MkDate(10, 30)
EndDate == MkDate(11, 2)

-----------------------------------------------------------------------------
(* Random draws: the values each call of the random module is let return.  *)

\* random.randint(lo, hi): the two ends of the range; empty when lo > hi,
\* where the code raises ValueError
RandInt(lo, hi) == {lo, hi} \cap (lo..hi)

\* random.randint(lo, hi) where the model follows one draw only: the low end
RandIntLow(lo, hi) == {lo} \cap (lo..hi)

\* random.uniform(-0.05, 0.05), in percent
FluctuationDraws == {-5, 5}
\* random.uniform(-0.02, 0.03), in percent
TrendDraws == {3}
\* random.uniform(100, 2000), scaled
InvoiceUsdDraws == {30, 100}
\* random.uniform(50, 5000), scaled
VendorUsdDraws == {30, 80}
\* random.uniform(50000, 300000), scaled
OutgoingUsdDraws == {80, 300}
\* IncomingPlan with the second planned payment lost
IncomingPlanFirstOnly == <<<<1, 150>>>>

\* [(1, 100000), (3, 200000)], scaled
IncomingPlan == <<<<1, 150>>, <<3, 300>>>>

\* base_rate = 59000, scaled
BaseRate == 100

-----------------------------------------------------------------------------
(* ExchangeRateModel                                                       *)

\* x * (1 + pct/100), rounded half up to the model's unit
Perturb(x, pct) == (x * (100 + pct) + 50) \div 100

\* ClosestDate answering with the last key of the table
ClosestDateLast(rates, date) == CHOOSE k \in DOMAIN rates : \A j \in DOMAIN rates : j <= k

\* the key min(self.exchange_rates.keys(), key=|x - date|) returns: the first
\* key in insertion (ascending) order at the least distance
ClosestDate(rates, date) ==
    CHOOSE k \in DOMAIN rates :
        \A j \in DOMAIN rates :
            \/ Abs(k - date) < Abs(j - date)
            \/ Abs(k - date) = Abs(j - date) /\ k <= j

\* the rate usd_to_btc divides by
RateFor(rates, date) ==
    IF date \in DOMAIN rates /\ rates[date] # 0 THEN rates[date]
    ELSE rates[ClosestDate(rates, date)]

\* usd_to_btc: Decimal(usd_amount) / Decimal(rate)
usd_to_btc(rates, usd_amount, date) == [num |-> usd_amount, den |-> RateFor(rates, date)]

\* btc_to_satoshis: int(btc_amount * COIN), truncating toward zero
btc_to_satoshis(btc_amount) == (btc_amount.num * COIN) \div btc_amount.den

-----------------------------------------------------------------------------
(* WalletRegistry                                                          *)

\* str(CBitcoinAddress.from_pubkey(key.pub)) of the k-th key drawn for a
\* wallet: distinct keys give distinct addresses
AddressOf(wallet_id, k) == <<wallet_id, k>>

WalletName(wallet_id) ==
    CASE wallet_id = "A" -> "Invoicing"
      [] wallet_id = "B" -> "Treasury"
      [] wallet_id = "C" -> "Checking"

\* [addr['address'] for addr in self.wallets[wallet_id]['addresses']]
AddressesOf(wallet_id) == wallets[wallet_id].addresses

-----------------------------------------------------------------------------
(* UTXOLedger                                                              *)

Utxo(txid, vout, amount, address, block_height) ==
    [txid |-> txid, vout |-> vout, amount |-> amount, address |-> address,
     block_height |-> block_height]

\* RemoveTxid with the filter keeping nothing: the ledger is left empty
RemoveTxidEverything(ledger, txid) == <<>>

\* [u for u in ledger if u['txid'] != txid]
RemoveTxid(ledger, txid) == LET keep(u) == u.txid # txid IN Filter(ledger, keep)

\* RemoveSpent with the loop over the spent UTXOs lost: only the first spent
\* UTXO is removed
RemoveSpentFirstOnly(ledger, spent) ==
    IF spent = <<>> THEN ledger ELSE RemoveTxid(ledger, spent[1].txid)

\* for spent_utxo in spent: ledger = [u for u in ledger if u['txid'] != spent_utxo['txid']]
RemoveSpent(ledger, spent) ==
    LET keep(u) == \A k \in DOMAIN spent : u.txid # spent[k].txid IN Filter(ledger, keep)

\* sum(utxo['amount'] for utxo in ledger)
TotalAmount(ledger) == LET amount(u) == u.amount IN SumSeq(Map(ledger, amount))

\* max(utxo['block_height'] for utxo in ledger), of a non-empty ledger
MaxBlockHeight(ledger) == Max({ledger[k].block_height : k \in DOMAIN ledger})

\* InputsOf naming the first spent UTXO only
InputsOfFirstOnly(spent) == <<[txid |-> spent[1].txid, vout |-> spent[1].vout]>>

\* [{'txid': utxo['txid'], 'vout': utxo['vout']} for utxo in spent]
InputsOf(spent) == LET ref(u) == [txid |-> u.txid, vout |-> u.vout] IN Map(spent, ref)

-----------------------------------------------------------------------------
(* Construction and wallet generation                                      *)

\* WalletSimulator.__init__, up to the call of _generate_exchange_rates.  The
\* run draws the same fluctuation and the same trend every day.
Init ==
    /\ pc = "exchange_rates"
    /\ wallets = <<>>
    /\ exchange_rates = <<>>
    /\ \E fluctuation \in FluctuationDraws, trend_factor \in TrendDraws :
           rate_walk = [current_date |-> StartDate, base_rate |-> BaseRate,
                        fluctuation |-> fluctuation, trend_factor |-> trend_factor]
    /\ transactions = <<>>
    /\ utxos = [w \in Range(WalletIds) |-> <<>>]
    /\ txs = <<>>
    /\ curr_block_height = 0
    /\ i = 0
    /\ utxo_chunks = <<>>
    /\ summary = <<>>

\* _generate_exchange_rates: one iteration of "while current_date <= self.end_date"
GenerateExchangeRate ==
    /\ pc = "exchange_rates"
    /\ rate_walk.current_date <= EndDate
    /\ LET rate == Perturb(rate_walk.base_rate, rate_walk.fluctuation)
       IN  exchange_rates' = [d \in StartDate..rate_walk.current_date |->
                                IF d = rate_walk.current_date THEN rate
                                ELSE exchange_rates[d]]
    /\ rate_walk' = [rate_walk EXCEPT
                       !.base_rate = Perturb(@, rate_walk.trend_factor),
                       !.current_date = @ + 1]
    /\ UNCHANGED <<pc, wallets, transactions, utxos, txs, curr_block_height, i,
                   utxo_chunks, summary>>

\* the end of _generate_exchange_rates and of __init__
ExchangeRatesDone ==
    /\ pc = "exchange_rates"
    /\ rate_walk.current_date > EndDate
    /\ pc' = "generate_wallets"
    /\ UNCHANGED <<wallets, exchange_rates, rate_walk, transactions, utxos, txs,
                   curr_block_height, i, utxo_chunks, summary>>

\* generate_wallets
GenerateWallets ==
    /\ pc = "generate_wallets"
    /\ wallets' = [w \in Range(WalletIds) |->
                     [name |-> WalletName(w),
                      addresses |-> [k \in 1..NumAddresses(w) |-> AddressOf(w, k)]]]
    /\ pc' = "invoice"
    /\ curr_block_height' = 1
    /\ i' = 0
    /\ txs' = <<>>
    /\ UNCHANGED <<exchange_rates, rate_walk, transactions, utxos, utxo_chunks, summary>>

-----------------------------------------------------------------------------
(* Invoice phase: generate_invoice_transactions                            *)

\* InvoiceStep with the UTXO minted at the fiat amount of the invoice
InvoiceStepFiatUtxo ==
    /\ pc = "invoice"
    /\ i < NumInvoices
    /\ \E tx_date \in RandInt(StartDate, EndDate),
          usd_amount \in InvoiceUsdDraws,
          recipient_address \in Range(AddressesOf("A")),
          step \in RandIntLow(1, 6) :
        LET btc_amount == usd_to_btc(exchange_rates, usd_amount, tx_date)
            satoshis == btc_to_satoshis(btc_amount)
            tx == [txid |-> <<"invoice", i>>,
                   date |-> tx_date,
                   block_height |-> curr_block_height,
                   usd_amount |-> usd_amount,
                   btc_amount |-> btc_amount,
                   satoshis |-> satoshis,
                   to_address |-> recipient_address,
                   wallet |-> "A",
                   type |-> "invoice"]
        IN  /\ utxos' = [utxos EXCEPT !["A"] =
                           Append(@, Utxo(tx.txid, 0, usd_amount, recipient_address,
                                          curr_block_height))]
            /\ txs' = Append(txs, tx)
            /\ curr_block_height' = curr_block_height + step
    /\ i' = i + 1
    /\ UNCHANGED <<pc, wallets, exchange_rates, rate_walk, transactions, utxo_chunks, summary>>

\* one iteration of "for i in range(10000)"
InvoiceStep ==
    /\ pc = "invoice"
    /\ i < NumInvoices
    /\ \E tx_date \in RandInt(StartDate, EndDate),
          usd_amount \in InvoiceUsdDraws,
          recipient_address \in Range(AddressesOf("A")),
          step \in RandIntLow(1, 6) :
        LET btc_amount == usd_to_btc(exchange_rates, usd_amount, tx_date)
            satoshis == btc_to_satoshis(btc_amount)
            tx == [txid |-> <<"invoice", i>>,
                   date |-> tx_date,
                   block_height |-> curr_block_height,
                   usd_amount |-> usd_amount,
                   btc_amount |-> btc_amount,
                   satoshis |-> satoshis,
                   to_address |-> recipient_address,
                   wallet |-> "A",
                   type |-> "invoice"]
        IN  /\ utxos' = [utxos EXCEPT !["A"] =
                           Append(@, Utxo(tx.txid, 0, satoshis, recipient_address,
                                          curr_block_height))]
            /\ txs' = Append(txs, tx)
            /\ curr_block_height' = curr_block_height + step
    /\ i' = i + 1
    /\ UNCHANGED <<pc, wallets, exchange_rates, rate_walk, transactions, utxo_chunks, summary>>

\* SortedInvoices with the sort lost: the block heights of the generation order
SortedInvoicesUnsorted(list) ==
    [k \in 1..Len(list) |-> [list[k] EXCEPT !.block_height = 100 + (k - 1)]]

\* txs.sort(key=date) and the block heights 100 + i of the sorted order
SortedInvoices(list) ==
    LET date(tx) == tx.date
        sorted == SortByKey(list, date)
    IN  [k \in 1..Len(sorted) |-> [sorted[k] EXCEPT !.block_height = 100 + (k - 1)]]

\* the ledger after "utxo['block_height'] = tx['block_height']" for every tx
\* and every utxo of its txid
RestampedLedger(ledger, sorted) ==
    LET restamp(u) ==
            IF \E k \in DOMAIN sorted : sorted[k].txid = u.txid
            THEN [u EXCEPT !.block_height =
                     sorted[Max({k \in DOMAIN sorted : sorted[k].txid = u.txid})].block_height]
            ELSE u
    IN  Map(ledger, restamp)

\* the end of generate_invoice_transactions: sort, restamp, extend
InvoiceFinish ==
    /\ pc = "invoice"
    /\ i = NumInvoices
    /\ LET sorted == SortedInvoices(txs)
       IN  /\ utxos' = [utxos EXCEPT !["A"] = RestampedLedger(@, sorted)]
           /\ transactions' = transactions \o sorted
    /\ pc' = "consolidation"
    /\ txs' = <<>>
    /\ UNCHANGED <<wallets, exchange_rates, rate_walk, curr_block_height, i, utxo_chunks, summary>>

-----------------------------------------------------------------------------
(* Consolidation phase: generate_consolidation_transactions                *)

\* the elements of a finite set of integers in ascending order
AscendingSeq(S) ==
    [n \in 1..Cardinality(S) |-> CHOOSE x \in S : Cardinality({y \in S : y < x}) = n - 1]

\* period = (month - 1) // 2 of a logged transaction
PeriodOf(tx) == (MonthOf(tx.date) - 1) \div 2

\* the keys of utxos_by_date in insertion order: the periods of the wallet A
\* transactions of the log, each at its first occurrence
PeriodsInOrder(log) ==
    LET first == {k \in DOMAIN log :
                    /\ log[k].wallet = "A"
                    /\ \A j \in 1..(k - 1) : PeriodOf(log[j]) # PeriodOf(log[k])}
        order == AscendingSeq(first)
    IN  [n \in 1..Len(order) |-> PeriodOf(log[order[n]])]

\* PeriodUtxos with the entries carrying the fiat amount of the invoice
PeriodUtxosFiat(log, period) ==
    LET in_period(tx) == tx.wallet = "A" /\ PeriodOf(tx) = period
        entry(tx) == [txid |-> tx.txid, vout |-> 0, amount |-> tx.usd_amount,
                      address |-> tx.to_address]
    IN  Map(Filter(log, in_period), entry)

\* utxos_by_date[period]: one entry per wallet A transaction of the period, in
\* log order
PeriodUtxos(log, period) ==
    LET in_period(tx) == tx.wallet = "A" /\ PeriodOf(tx) = period
        entry(tx) == [txid |-> tx.txid, vout |-> 0, amount |-> tx.satoshis,
                      address |-> tx.to_address]
    IN  Map(Filter(log, in_period), entry)

\* NumConsolidationsOf with the last period's extra chunk lost
NumConsolidationsOfFlat(period) == NumConsolidations

\* num_consolidations = 16 if period < 5 else 17
NumConsolidationsOf(period) ==
    IF period < 5 THEN NumConsolidations ELSE NumConsolidations + 1

\* ArraySplit with chunks of len // sections elements each: the remainder of
\* the list is in no chunk
ArraySplitTruncating(list, sections, j) ==
    LET each == Len(list) \div sections
    IN  SubSeq(list, j * each + 1, (j + 1) * each)

\* np.array_split(list, sections)[j], j from 0: the first len % sections
\* chunks hold len // sections + 1 elements, the others len // sections
ArraySplit(list, sections, j) ==
    LET each == Len(list) \div sections
        extras == Len(list) % sections
        start == j * each + (IF j < extras THEN j ELSE extras)
        size == each + (IF j < extras THEN 1 ELSE 0)
    IN  SubSeq(list, start + 1, start + size)

\* datetime.date(year, month, last_day) of the period
ConsolidationDate(period) ==
    LET month == period * 2 + 2
        last_day == IF month = 2 THEN 28
                    ELSE IF month \in {4, 6, 9, 11} THEN 30 ELSE 31
    IN  MkDate(month, last_day)

\* the chunks the two nested loops visit, in visiting order
RECURSIVE ChunksOf(_, _)
ChunksOf(log, periods) ==
    IF periods = <<>> THEN <<>>
    ELSE LET period == periods[1]
             period_utxos == PeriodUtxos(log, period)
             sections == NumConsolidationsOf(period)
         IN  [j \in 1..sections |->
                 [period |-> period, i |-> j - 1,
                  chunk |-> ArraySplit(period_utxos, sections, j - 1)]]
             \o ChunksOf(log, Tail(periods))

\* ConsolidationStart beginning at the highest invoice block height itself
ConsolidationStartAtInvoiceHeight ==
    /\ pc = "consolidation"
    /\ utxos["A"] # <<>>
    /\ curr_block_height' = MaxBlockHeight(utxos["A"])
    /\ utxo_chunks' = ChunksOf(transactions, PeriodsInOrder(transactions))
    /\ txs' = <<>>
    /\ pc' = "consolidation_loop"
    /\ UNCHANGED <<wallets, exchange_rates, rate_walk, transactions, utxos, i, summary>>

\* the prologue: the first block height and utxos_by_date
ConsolidationStart ==
    /\ pc = "consolidation"
    /\ utxos["A"] # <<>>
    /\ curr_block_height' = MaxBlockHeight(utxos["A"]) + 1
    /\ utxo_chunks' = ChunksOf(transactions, PeriodsInOrder(transactions))
    /\ txs' = <<>>
    /\ pc' = "consolidation_loop"
    /\ UNCHANGED <<wallets, exchange_rates, rate_walk, transactions, utxos, i, summary>>

\* ConsolidationStep with the chunk index missing from the txid
ConsolidationStepOneTxid ==
    /\ pc = "consolidation_loop"
    /\ utxo_chunks # <<>>
    /\ Len(utxo_chunks[1].chunk) # 0
    /\ \E treasury_address \in Range(AddressesOf("B")), step \in RandIntLow(5, 15) :
        LET period == utxo_chunks[1].period
            chunk == utxo_chunks[1].chunk
            total_satoshis == TotalAmount(chunk)
            tx == [txid |-> <<"consolidation", period, 0>>,
                   date |-> ConsolidationDate(period),
                   block_height |-> curr_block_height,
                   inputs |-> InputsOf(chunk),
                   satoshis |-> total_satoshis,
                   btc_amount |-> [num |-> total_satoshis, den |-> COIN],
                   to_address |-> treasury_address,
                   wallet_from |-> "A",
                   wallet_to |-> "B",
                   type |-> "consolidation"]
        IN  /\ txs' = Append(txs, tx)
            /\ utxos' = [utxos EXCEPT
                           !["B"] = Append(@, Utxo(tx.txid, 0, total_satoshis,
                                                   treasury_address, curr_block_height)),
                           !["A"] = RemoveSpent(@, chunk)]
            /\ curr_block_height' = curr_block_height + step
    /\ utxo_chunks' = Tail(utxo_chunks)
    /\ UNCHANGED <<pc, wallets, exchange_rates, rate_walk, transactions, i, summary>>

\* one iteration of "for i, chunk in enumerate(utxo_chunks)" on a chunk that
\* is not empty
ConsolidationStep ==
    /\ pc = "consolidation_loop"
    /\ utxo_chunks # <<>>
    /\ Len(utxo_chunks[1].chunk) # 0
    /\ \E treasury_address \in Range(AddressesOf("B")), step \in RandIntLow(5, 15) :
        LET period == utxo_chunks[1].period
            chunk == utxo_chunks[1].chunk
            total_satoshis == TotalAmount(chunk)
            tx == [txid |-> <<"consolidation", period, utxo_chunks[1].i>>,
                   date |-> ConsolidationDate(period),
                   block_height |-> curr_block_height,
                   inputs |-> InputsOf(chunk),
                   satoshis |-> total_satoshis,
                   btc_amount |-> [num |-> total_satoshis, den |-> COIN],
                   to_address |-> treasury_address,
                   wallet_from |-> "A",
                   wallet_to |-> "B",
                   type |-> "consolidation"]
        IN  /\ txs' = Append(txs, tx)
            /\ utxos' = [utxos EXCEPT
                           !["B"] = Append(@, Utxo(tx.txid, 0, total_satoshis,
                                                   treasury_address, curr_block_height)),
                           !["A"] = RemoveSpent(@, chunk)]
            /\ curr_block_height' = curr_block_height + step
    /\ utxo_chunks' = Tail(utxo_chunks)
    /\ UNCHANGED <<pc, wallets, exchange_rates, rate_walk, transactions, i, summary>>

\* "if len(chunk) == 0: continue"
ConsolidationSkipEmpty ==
    /\ pc = "consolidation_loop"
    /\ utxo_chunks # <<>>
    /\ Len(utxo_chunks[1].chunk) = 0
    /\ utxo_chunks' = Tail(utxo_chunks)
    /\ UNCHANGED <<pc, wallets, exchange_rates, rate_walk, transactions, utxos, txs,
                   curr_block_height, i, summary>>

\* the epilogue: self.transactions.extend(consolidated_txs)
ConsolidationFinish ==
    /\ pc = "consolidation_loop"
    /\ utxo_chunks = <<>>
    /\ transactions' = transactions \o txs
    /\ txs' = <<>>
    /\ pc' = "checking"
    /\ UNCHANGED <<wallets, exchange_rates, rate_walk, utxos, curr_block_height, i,
                   utxo_chunks, summary>>

-----------------------------------------------------------------------------
(* Transfer + vendor payment phase: generate_checking_account_transactions *)

DummyTxid == <<"dummy_large_treasury_utxo">>

\* one_btc_satoshis = COIN
one_btc_satoshis == COIN

\* transfer_date = datetime.date(year, 1, 15)
TransferDate == MkDate(1, 15)

\* "for utxo in self.utxos['B']: if utxo['amount'] >= one_btc_satoshis: ...
\* break": the index of the first UTXO of the ledger that is large enough, 0
\* when there is none
FirstLargeEnough(ledger, amount) ==
    LET fits == {k \in DOMAIN ledger : ledger[k].amount >= amount}
    IN  IF fits = {} THEN 0 ELSE CHOOSE k \in fits : \A j \in fits : k <= j

\* TreasuryUtxoFor with a placeholder that is not told apart: it takes the
\* txid of the transfer itself
TreasuryUtxoForUnflagged(ledger, block_height) ==
    IF FirstLargeEnough(ledger, one_btc_satoshis) # 0
    THEN ledger[FirstLargeEnough(ledger, one_btc_satoshis)]
    ELSE Utxo(<<"treasury_to_checking">>, 0, one_btc_satoshis * 2,
              wallets["B"].addresses[1], block_height - 10)

\* the treasury UTXO the transfer spends: the first one large enough, else the
\* dummy UTXO of 2 units, 10 blocks below the transfer
TreasuryUtxoFor(ledger, block_height) ==
    IF FirstLargeEnough(ledger, one_btc_satoshis) # 0
    THEN ledger[FirstLargeEnough(ledger, one_btc_satoshis)]
    ELSE Utxo(DummyTxid, 0, one_btc_satoshis * 2, wallets["B"].addresses[1],
              block_height - 10)

\* the treasury ledger the search for a UTXO leaves: the dummy UTXO is
\* appended when no UTXO is large enough
TreasuryAfterSearch(ledger, block_height) ==
    IF FirstLargeEnough(ledger, one_btc_satoshis) # 0 THEN ledger
    ELSE Append(ledger, TreasuryUtxoFor(ledger, block_height))

\* TreasuryAfterTransfer with the change output forgotten
TreasuryAfterTransferNoChange(ledger, treasury_utxo, txid, block_height) ==
    RemoveTxid(ledger, treasury_utxo.txid)

\* the treasury ledger after the transfer: change appended when positive, then
\* every UTXO of the spent txid removed
TreasuryAfterTransfer(ledger, treasury_utxo, txid, block_height) ==
    LET change_amount == treasury_utxo.amount - one_btc_satoshis
        with_change == IF change_amount > 0
                       THEN Append(ledger, Utxo(txid, 1, change_amount,
                                                treasury_utxo.address, block_height))
                       ELSE ledger
    IN  RemoveTxid(with_change, treasury_utxo.txid)

\* Transfer with the endpoints of its record the wrong way round
TransferEndpointsReversed ==
    /\ pc = "checking"
    /\ utxos["B"] # <<>>
    /\ \E step \in RandInt(5, 15) :
        LET height == MaxBlockHeight(utxos["B"]) + 1
            checking_address == wallets["C"].addresses[1]
            treasury_utxo == TreasuryUtxoFor(utxos["B"], height)
            searched == TreasuryAfterSearch(utxos["B"], height)
            transfer_tx == [txid |-> <<"treasury_to_checking">>,
                            date |-> TransferDate,
                            block_height |-> height,
                            inputs |-> InputsOf(<<treasury_utxo>>),
                            satoshis |-> one_btc_satoshis,
                            btc_amount |-> [num |-> 1, den |-> 1],
                            to_address |-> checking_address,
                            wallet_from |-> "C",
                            wallet_to |-> "B",
                            type |-> "transfer"]
        IN  /\ txs' = <<transfer_tx>>
            /\ utxos' = [utxos EXCEPT
                           !["C"] = Append(@, Utxo(transfer_tx.txid, 0, one_btc_satoshis,
                                                   checking_address, height)),
                           !["B"] = TreasuryAfterTransfer(searched, treasury_utxo,
                                                          transfer_tx.txid, height)]
            /\ curr_block_height' = height + step
    /\ i' = 0
    /\ pc' = "vendor_loop"
    /\ UNCHANGED <<wallets, exchange_rates, rate_walk, transactions, utxo_chunks, summary>>

\* part 1: the prologue and the transfer of one unit from treasury to checking
Transfer ==
    /\ pc = "checking"
    /\ utxos["B"] # <<>>
    /\ \E step \in RandInt(5, 15) :
        LET height == MaxBlockHeight(utxos["B"]) + 1
            checking_address == wallets["C"].addresses[1]
            treasury_utxo == TreasuryUtxoFor(utxos["B"], height)
            searched == TreasuryAfterSearch(utxos["B"], height)
            transfer_tx == [txid |-> <<"treasury_to_checking">>,
                            date |-> TransferDate,
                            block_height |-> height,
                            inputs |-> InputsOf(<<treasury_utxo>>),
                            satoshis |-> one_btc_satoshis,
                            btc_amount |-> [num |-> 1, den |-> 1],
                            to_address |-> checking_address,
                            wallet_from |-> "B",
                            wallet_to |-> "C",
                            type |-> "transfer"]
        IN  /\ txs' = <<transfer_tx>>
            /\ utxos' = [utxos EXCEPT
                           !["C"] = Append(@, Utxo(transfer_tx.txid, 0, one_btc_satoshis,
                                                   checking_address, height)),
                           !["B"] = TreasuryAfterTransfer(searched, treasury_utxo,
                                                          transfer_tx.txid, height)]
            /\ curr_block_height' = height + step
    /\ i' = 0
    /\ pc' = "vendor_loop"
    /\ UNCHANGED <<wallets, exchange_rates, rate_walk, transactions, utxo_chunks, summary>>

\* the input a vendor payment names: the txid of the first checking UTXO,
\* with output index 0
VendorInputs(ledger) == <<[txid |-> ledger[1].txid, vout |-> 0]>>

\* CheckingAfterPayment with the change UTXO carrying the amount before the
\* payment
CheckingAfterPaymentKeepsAmount(ledger, txid, satoshis, address, block_height) ==
    [ledger EXCEPT ![1] = Utxo(txid, 1, ledger[1].amount, address, block_height)]

\* the checking ledger after a vendor payment: the first UTXO replaced by the
\* change UTXO, which carries the first UTXO's amount less the payment
CheckingAfterPayment(ledger, txid, satoshis, address, block_height) ==
    [ledger EXCEPT ![1] = Utxo(txid, 1, ledger[1].amount - satoshis, address,
                               block_height)]

\* VendorPayment with the payment's output tracked as a treasury UTXO
VendorPaymentTrackedInTreasury ==
    /\ pc = "vendor_loop"
    /\ i < NumVendorPayments
    /\ \E tx_date \in RandIntLow(TransferDate + 1, EndDate),
          usd_amount \in VendorUsdDraws,
          step \in RandIntLow(5, 15) :
        LET btc_amount == usd_to_btc(exchange_rates, usd_amount, tx_date)
            satoshis == btc_to_satoshis(btc_amount)
            vendor_tx == [txid |-> <<"vendor_payment", i>>,
                          date |-> tx_date,
                          block_height |-> curr_block_height,
                          inputs |-> VendorInputs(utxos["C"]),
                          usd_amount |-> usd_amount,
                          btc_amount |-> btc_amount,
                          satoshis |-> satoshis,
                          to_address |-> <<"vendor", i>>,
                          wallet_from |-> "C",
                          wallet_to |-> "external",
                          type |-> "vendor_payment"]
        IN  /\ txs' = Append(txs, vendor_tx)
            /\ utxos' = [utxos EXCEPT
                           !["C"] = CheckingAfterPayment(@, vendor_tx.txid, satoshis,
                                                         wallets["C"].addresses[1],
                                                         curr_block_height),
                           !["B"] = Append(@, Utxo(vendor_tx.txid, 0, satoshis,
                                                   <<"vendor", i>>, curr_block_height))]
            /\ curr_block_height' = curr_block_height + step
    /\ i' = i + 1
    /\ UNCHANGED <<pc, wallets, exchange_rates, rate_walk, transactions, utxo_chunks, summary>>

\* part 2: one iteration of "for i in range(20)"
VendorPayment ==
    /\ pc = "vendor_loop"
    /\ i < NumVendorPayments
    /\ \E tx_date \in RandIntLow(TransferDate + 1, EndDate),
          usd_amount \in VendorUsdDraws,
          step \in RandIntLow(5, 15) :
        LET btc_amount == usd_to_btc(exchange_rates, usd_amount, tx_date)
            satoshis == btc_to_satoshis(btc_amount)
            vendor_tx == [txid |-> <<"vendor_payment", i>>,
                          date |-> tx_date,
                          block_height |-> curr_block_height,
                          inputs |-> VendorInputs(utxos["C"]),
                          usd_amount |-> usd_amount,
                          btc_amount |-> btc_amount,
                          satoshis |-> satoshis,
                          to_address |-> <<"vendor", i>>,
                          wallet_from |-> "C",
                          wallet_to |-> "external",
                          type |-> "vendor_payment"]
        IN  /\ txs' = Append(txs, vendor_tx)
            /\ utxos' = [utxos EXCEPT
                           !["C"] = CheckingAfterPayment(@, vendor_tx.txid, satoshis,
                                                         wallets["C"].addresses[1],
                                                         curr_block_height)]
            /\ curr_block_height' = curr_block_height + step
    /\ i' = i + 1
    /\ UNCHANGED <<pc, wallets, exchange_rates, rate_walk, transactions, utxo_chunks, summary>>

\* the epilogue: self.transactions.extend(transactions)
CheckingFinish ==
    /\ pc = "vendor_loop"
    /\ i = NumVendorPayments
    /\ transactions' = transactions \o txs
    /\ txs' = <<>>
    /\ pc' = "special"
    /\ UNCHANGED <<wallets, exchange_rates, rate_walk, utxos, curr_block_height, i,
                   utxo_chunks, summary>>

-----------------------------------------------------------------------------
(* Special treasury phase: generate_special_treasury_transactions          *)

\* SortedByAmountDesc with reverse=True lost: ascending in amount
SortedByAmountAsc(ledger) == LET key(u) == u.amount IN SortByKey(ledger, key)

\* sorted(ledger, key=lambda u: u['amount'], reverse=True): descending in
\* amount, equal amounts in ledger order
SortedByAmountDesc(ledger) == LET key(u) == 0 - u.amount IN SortByKey(ledger, key)

\* SelectedCount of a loop that never breaks
SelectedCountAll(sorted, satoshis) == Len(sorted)

\* the number of UTXOs the selection loop appends: it appends one UTXO per
\* iteration and breaks once total_input >= satoshis, so it takes the shortest
\* non-empty prefix that reaches the target, or the whole list
SelectedCount(sorted, satoshis) ==
    LET reaches == {n \in 1..Len(sorted) : TotalAmount(SubSeq(sorted, 1, n)) >= satoshis}
    IN  IF reaches = {} THEN Len(sorted) ELSE CHOOSE n \in reaches : \A m \in reaches : n <= m

\* utxos_to_spend
SelectUtxos(ledger, satoshis) ==
    LET sorted == SortedByAmountDesc(ledger)
    IN  SubSeq(sorted, 1, SelectedCount(sorted, satoshis))

\* SpecialStart beginning above the treasury's highest block only
SpecialStartAboveTreasury ==
    /\ pc = "special"
    /\ utxos["B"] # <<>>
    /\ utxos["C"] # <<>>
    /\ curr_block_height' = MaxBlockHeight(utxos["B"]) + 1
    /\ txs' = <<>>
    /\ i' = 0
    /\ pc' = "special_loop"
    /\ UNCHANGED <<wallets, exchange_rates, rate_walk, transactions, utxos, utxo_chunks, summary>>

\* the prologue: the first block height
SpecialStart ==
    /\ pc = "special"
    /\ utxos["B"] # <<>>
    /\ utxos["C"] # <<>>
    /\ curr_block_height' = Max({MaxBlockHeight(utxos["B"]), MaxBlockHeight(utxos["C"])}) + 1
    /\ txs' = <<>>
    /\ i' = 0
    /\ pc' = "special_loop"
    /\ UNCHANGED <<wallets, exchange_rates, rate_walk, transactions, utxos, utxo_chunks, summary>>

\* the date, the fiat amount and the target of the i-th outgoing payment
OutgoingDraws == RandIntLow(1, 28) \X OutgoingUsdDraws

OutgoingDate(draw) == MkDate(i * 2 + 2, draw[1])

OutgoingSatoshis(draw) ==
    btc_to_satoshis(usd_to_btc(exchange_rates, draw[2], OutgoingDate(draw)))

\* OutgoingPayment with the removal of the spent UTXOs left out
OutgoingPaymentKeepsInputs ==
    /\ pc = "special_loop"
    /\ i < NumOutgoing
    /\ \E draw \in OutgoingDraws,
          treasury_address \in Range(AddressesOf("B")),
          step \in RandIntLow(5, 15) :
        LET satoshis == OutgoingSatoshis(draw)
            utxos_to_spend == SelectUtxos(utxos["B"], satoshis)
            total_input == TotalAmount(utxos_to_spend)
            outgoing_tx == [txid |-> <<"treasury_outgoing", i>>,
                            date |-> OutgoingDate(draw),
                            block_height |-> curr_block_height,
                            inputs |-> InputsOf(utxos_to_spend),
                            usd_amount |-> draw[2],
                            btc_amount |-> usd_to_btc(exchange_rates, draw[2],
                                                      OutgoingDate(draw)),
                            satoshis |-> satoshis,
                            to_address |-> <<"external_recipient", i>>,
                            wallet_from |-> "B",
                            wallet_to |-> "external",
                            type |-> "treasury_outgoing"]
            change_amount == total_input - satoshis
            remaining == utxos["B"]
        IN  /\ total_input >= satoshis
            /\ txs' = Append(txs, outgoing_tx)
            /\ utxos' = [utxos EXCEPT !["B"] =
                           IF change_amount > 0
                           THEN Append(remaining, Utxo(outgoing_tx.txid, 1, change_amount,
                                                       treasury_address, curr_block_height))
                           ELSE remaining]
            /\ curr_block_height' = curr_block_height + step
    /\ i' = i + 1
    /\ UNCHANGED <<pc, wallets, exchange_rates, rate_walk, transactions, utxo_chunks, summary>>

\* part 1, one iteration of "for i in range(5)" that pays
OutgoingPayment ==
    /\ pc = "special_loop"
    /\ i < NumOutgoing
    /\ \E draw \in OutgoingDraws,
          treasury_address \in Range(AddressesOf("B")),
          step \in RandIntLow(5, 15) :
        LET satoshis == OutgoingSatoshis(draw)
            utxos_to_spend == SelectUtxos(utxos["B"], satoshis)
            total_input == TotalAmount(utxos_to_spend)
            outgoing_tx == [txid |-> <<"treasury_outgoing", i>>,
                            date |-> OutgoingDate(draw),
                            block_height |-> curr_block_height,
                            inputs |-> InputsOf(utxos_to_spend),
                            usd_amount |-> draw[2],
                            btc_amount |-> usd_to_btc(exchange_rates, draw[2],
                                                      OutgoingDate(draw)),
                            satoshis |-> satoshis,
                            to_address |-> <<"external_recipient", i>>,
                            wallet_from |-> "B",
                            wallet_to |-> "external",
                            type |-> "treasury_outgoing"]
            change_amount == total_input - satoshis
            remaining == RemoveSpent(utxos["B"], utxos_to_spend)
        IN  /\ total_input >= satoshis
            /\ txs' = Append(txs, outgoing_tx)
            /\ utxos' = [utxos EXCEPT !["B"] =
                           IF change_amount > 0
                           THEN Append(remaining, Utxo(outgoing_tx.txid, 1, change_amount,
                                                       treasury_address, curr_block_height))
                           ELSE remaining]
            /\ curr_block_height' = curr_block_height + step
    /\ i' = i + 1
    /\ UNCHANGED <<pc, wallets, exchange_rates, rate_walk, transactions, utxo_chunks, summary>>

\* OutgoingSkip with the block height increment ahead of the "continue"
OutgoingSkipAdvancing ==
    /\ pc = "special_loop"
    /\ i < NumOutgoing
    /\ \E draw \in OutgoingDraws :
           TotalAmount(SelectUtxos(utxos["B"], OutgoingSatoshis(draw))) < OutgoingSatoshis(draw)
    /\ i' = i + 1
    /\ \E step \in RandIntLow(5, 15) : curr_block_height' = curr_block_height + step
    /\ UNCHANGED <<pc, wallets, exchange_rates, rate_walk, transactions, utxos, txs,
                   utxo_chunks, summary>>

\* part 1, one iteration that finds too little in the treasury: "continue"
OutgoingSkip ==
    /\ pc = "special_loop"
    /\ i < NumOutgoing
    /\ \E draw \in OutgoingDraws :
           TotalAmount(SelectUtxos(utxos["B"], OutgoingSatoshis(draw))) < OutgoingSatoshis(draw)
    /\ i' = i + 1
    /\ UNCHANGED <<pc, wallets, exchange_rates, rate_walk, transactions, utxos, txs,
                   curr_block_height, utxo_chunks, summary>>

\* IncomingPayment with the loop index missing from the txid
IncomingPaymentOneTxid ==
    /\ pc = "special_loop"
    /\ i >= NumOutgoing
    /\ i < NumOutgoing + Len(IncomingPlan)
    /\ \E day \in RandIntLow(1, 28),
          treasury_address \in Range(AddressesOf("B")),
          step \in RandIntLow(5, 15) :
        LET n == i - NumOutgoing
            quarter == IncomingPlan[n + 1][1]
            usd_amount == IncomingPlan[n + 1][2]
            tx_date == MkDate(quarter * 3 - 1, day)
            btc_amount == usd_to_btc(exchange_rates, usd_amount, tx_date)
            satoshis == btc_to_satoshis(btc_amount)
            incoming_tx == [txid |-> <<"treasury_incoming">>,
                            date |-> tx_date,
                            block_height |-> curr_block_height,
                            inputs |-> <<[txid |-> <<"external_source", n>>, vout |-> 0]>>,
                            usd_amount |-> usd_amount,
                            btc_amount |-> btc_amount,
                            satoshis |-> satoshis,
                            to_address |-> treasury_address,
                            wallet_from |-> "external",
                            wallet_to |-> "B",
                            type |-> "treasury_incoming"]
        IN  /\ txs' = Append(txs, incoming_tx)
            /\ utxos' = [utxos EXCEPT !["B"] =
                           Append(@, Utxo(incoming_tx.txid, 0, satoshis, treasury_address,
                                          curr_block_height))]
            /\ curr_block_height' = curr_block_height + step
    /\ i' = i + 1
    /\ UNCHANGED <<pc, wallets, exchange_rates, rate_walk, transactions, utxo_chunks, summary>>

\* part 2, one iteration of "for i, (quarter, usd_amount) in enumerate(...)"
IncomingPayment ==
    /\ pc = "special_loop"
    /\ i >= NumOutgoing
    /\ i < NumOutgoing + Len(IncomingPlan)
    /\ \E day \in RandIntLow(1, 28),
          treasury_address \in Range(AddressesOf("B")),
          step \in RandIntLow(5, 15) :
        LET n == i - NumOutgoing
            quarter == IncomingPlan[n + 1][1]
            usd_amount == IncomingPlan[n + 1][2]
            tx_date == MkDate(quarter * 3 - 1, day)
            btc_amount == usd_to_btc(exchange_rates, usd_amount, tx_date)
            satoshis == btc_to_satoshis(btc_amount)
            incoming_tx == [txid |-> <<"treasury_incoming", n>>,
                            date |-> tx_date,
                            block_height |-> curr_block_height,
                            inputs |-> <<[txid |-> <<"external_source", n>>, vout |-> 0]>>,
                            usd_amount |-> usd_amount,
                            btc_amount |-> btc_amount,
                            satoshis |-> satoshis,
                            to_address |-> treasury_address,
                            wallet_from |-> "external",
                            wallet_to |-> "B",
                            type |-> "treasury_incoming"]
        IN  /\ txs' = Append(txs, incoming_tx)
            /\ utxos' = [utxos EXCEPT !["B"] =
                           Append(@, Utxo(incoming_tx.txid, 0, satoshis, treasury_address,
                                          curr_block_height))]
            /\ curr_block_height' = curr_block_height + step
    /\ i' = i + 1
    /\ UNCHANGED <<pc, wallets, exchange_rates, rate_walk, transactions, utxo_chunks, summary>>

\* the epilogue: self.transactions.extend(transactions)
SpecialFinish ==
    /\ pc = "special_loop"
    /\ i = NumOutgoing + Len(IncomingPlan)
    /\ transactions' = transactions \o txs
    /\ txs' = <<>>
    /\ pc' = "save"
    /\ UNCHANGED <<wallets, exchange_rates, rate_walk, utxos, curr_block_height, i,
                   utxo_chunks, summary>>

-----------------------------------------------------------------------------
(* Aggregator: save_all_transactions                                       *)

\* SortedByBlockHeight by a sort that is not stable: transactions of one block
\* height come out in the reverse of their insertion order
SortedByBlockHeightReversingTies(log) ==
    LET key(tx) == tx.block_height
        reversed == [k \in 1..Len(log) |-> log[Len(log) + 1 - k]]
    IN  SortByKey(reversed, key)

\* self.transactions.sort(key=lambda x: x['block_height'])
SortedByBlockHeight(log) == LET key(tx) == tx.block_height IN SortByKey(log, key)

\* tx.get('wallet_from', tx.get('wallet', 'unknown'))
WalletFromOf(tx) ==
    IF "wallet_from" \in DOMAIN tx THEN tx.wallet_from
    ELSE IF "wallet" \in DOMAIN tx THEN tx.wallet ELSE "unknown"

\* tx.get('wallet_to', 'unknown')
WalletToOf(tx) == IF "wallet_to" \in DOMAIN tx THEN tx.wallet_to ELSE "unknown"

\* tx.get('type', 'unknown')
TypeOf(tx) == IF "type" \in DOMAIN tx THEN tx.type ELSE "unknown"

\* SummaryOf with the incoming count taken only from the transactions that
\* carry a wallet_to key
SummaryOfNamedTargets(log) ==
    LET count(p(_)) == Cardinality({k \in DOMAIN log : p(log[k])})
        types == {TypeOf(log[k]) : k \in DOMAIN log}
        keys == {WalletFromOf(log[k]) : k \in DOMAIN log}
                    \cup {WalletToOf(log[k]) : k \in DOMAIN log}
    IN  [total_transactions |-> Len(log),
         transaction_types |->
             [t \in types |-> LET is(tx) == TypeOf(tx) = t IN count(is)],
         wallets |->
             [w \in keys |->
                 [incoming |-> LET to(tx) == "wallet_to" \in DOMAIN tx /\ tx.wallet_to = w
                               IN  count(to),
                  outgoing |-> LET from(tx) == WalletFromOf(tx) = w IN count(from)]]]

\* the summary dict of a log
SummaryOf(log) ==
    LET count(p(_)) == Cardinality({k \in DOMAIN log : p(log[k])})
        types == {TypeOf(log[k]) : k \in DOMAIN log}
        keys == {WalletFromOf(log[k]) : k \in DOMAIN log}
                    \cup {WalletToOf(log[k]) : k \in DOMAIN log}
    IN  [total_transactions |-> Len(log),
         transaction_types |->
             [t \in types |-> LET is(tx) == TypeOf(tx) = t IN count(is)],
         wallets |->
             [w \in keys |->
                 [incoming |-> LET to(tx) == WalletToOf(tx) = w IN count(to),
                  outgoing |-> LET from(tx) == WalletFromOf(tx) = w IN count(from)]]]

\* SaveAllTransactions with the sorted records renumbered: block_height
\* becomes the place in the sorted log
SaveAllTransactionsRenumbering ==
    /\ pc = "save"
    /\ transactions' = [k \in DOMAIN transactions |->
                          [SortedByBlockHeight(transactions)[k] EXCEPT !.block_height = k]]
    /\ summary' = SummaryOf(transactions')
    /\ pc' = "done"
    /\ UNCHANGED <<wallets, exchange_rates, rate_walk, utxos, txs, curr_block_height, i,
                   utxo_chunks>>

SaveAllTransactions ==
    /\ pc = "save"
    /\ transactions' = SortedByBlockHeight(transactions)
    /\ summary' = SummaryOf(transactions')
    /\ pc' = "done"
    /\ UNCHANGED <<wallets, exchange_rates, rate_walk, utxos, txs, curr_block_height, i,
                   utxo_chunks>>


-----------------------------------------------------------------------------
(* Views of the state the properties are stated on                         *)

\* every transaction emitted so far: the log, then the running phase's list
Emitted == transactions \o txs

\* the (txid, output index) pairs of the inputs of a transaction
InputRefs(tx) == IF "inputs" \in DOMAIN tx THEN tx.inputs ELSE <<>>

\* the receiving wallet of a transaction: wallet_to, or the wallet of an invoice
DestinationOf(tx) ==
    IF "wallet_to" \in DOMAIN tx THEN tx.wallet_to
    ELSE IF tx.type = "invoice" THEN tx.wallet ELSE "external"

\* the spending wallet of a transaction: wallet_from; an invoice comes from outside
SourceOf(tx) == IF "wallet_from" \in DOMAIN tx THEN tx.wallet_from ELSE "external"

\* total amount of the emitted transactions that satisfy p
EmittedAmount(p(_)) ==
    LET amount(tx) == IF p(tx) THEN tx.satoshis ELSE 0 IN SumSeq(Map(Emitted, amount))

Received(w) == LET to(tx) == DestinationOf(tx) = w IN EmittedAmount(to)

Spent(w) == LET from(tx) == SourceOf(tx) = w IN EmittedAmount(from)

OfType(t) == LET is(tx) == tx.type = t IN Filter(Emitted, is)

\* the transfer was emitted
Transferred == OfType("transfer") # <<>>

\* the transfer spent the placeholder UTXO
PlaceholderSpent ==
    /\ Transferred
    /\ \E k \in DOMAIN OfType("transfer")[1].inputs :
           OfType("transfer")[1].inputs[k].txid = DummyTxid

-----------------------------------------------------------------------------
Next ==
    \/ GenerateExchangeRate
    \/ ExchangeRatesDone
    \/ GenerateWallets
    \/ InvoiceStep
    \/ InvoiceFinish
    \/ ConsolidationStart
    \/ ConsolidationStep
    \/ ConsolidationSkipEmpty
    \/ ConsolidationFinish
    \/ Transfer
    \/ VendorPayment
    \/ CheckingFinish
    \/ SpecialStart
    \/ OutgoingPayment
    \/ OutgoingSkip
    \/ IncomingPayment
    \/ SpecialFinish
    \/ SaveAllTransactions

Spec == Init /\ [][Next]_vars

-----------------------------------------------------------------------------
(* The aggregator on its own: save_all_transactions applied to any log.    *)
(* In a run of main() every phase starts above the highest block height of *)
(* the ledgers it reads, so the log reaches the aggregator already in      *)
(* ascending order; here the log is any short list of records of the       *)
(* shapes the phases emit, and of a record with no optional field.         *)

\* the longest log drawn
MaxLogLen == 3

\* the block heights drawn
LogHeights == {100, 101}

\* the record shapes drawn: the keys an invoice, a consolidation and a vendor
\* payment carry for the aggregator, and a record with txid and block_height only
LogShapes == {"invoice", "consolidation", "vendor_payment", "bare"}

\* the k-th record appended to the log
LogRecord(k, shape, block_height) ==
    CASE shape = "invoice" ->
             [txid |-> <<"tx", k>>, block_height |-> block_height,
              wallet |-> "A", type |-> "invoice"]
      [] shape = "consolidation" ->
             [txid |-> <<"tx", k>>, block_height |-> block_height,
              wallet_from |-> "A", wallet_to |-> "B", type |-> "consolidation"]
      [] shape = "vendor_payment" ->
             [txid |-> <<"tx", k>>, block_height |-> block_height,
              wallet_from |-> "C", wallet_to |-> "external", type |-> "vendor_payment"]
      [] shape = "bare" ->
             [txid |-> <<"tx", k>>, block_height |-> block_height]

\* a simulator whose log holds up to MaxLogLen records, about to aggregate
AggregatorInit ==
    /\ pc = "save"
    /\ \E n \in 0..MaxLogLen :
           \E draw \in [1..n -> LogShapes \X LogHeights] :
               transactions = [k \in 1..n |-> LogRecord(k, draw[k][1], draw[k][2])]
    /\ wallets = [w \in Range(WalletIds) |->
                    [name |-> WalletName(w),
                     addresses |-> [k \in 1..NumAddresses(w) |-> AddressOf(w, k)]]]
    /\ exchange_rates = <<>>
    /\ rate_walk = [current_date |-> StartDate, base_rate |-> BaseRate,
                    fluctuation |-> 5, trend_factor |-> 3]
    /\ utxos = [w \in Range(WalletIds) |-> <<>>]
    /\ txs = <<>>
    /\ curr_block_height = 0
    /\ i = 0
    /\ utxo_chunks = <<>>
    /\ summary = <<>>

AggregatorNext == SaveAllTransactions

AggregatorSpec == AggregatorInit /\ [][AggregatorNext]_vars


-----------------------------------------------------------------------------
(* Properties                                                              *)

\* every input of every transaction of a log, as <<transaction index, input index>>
InputPlaces(log) ==
    UNION {{<<k, j>> : j \in DOMAIN InputRefs(log[k])} : k \in DOMAIN log}

InputAt(log, p) == InputRefs(log[p[1]])[p[2]]

\* C1: no (txid, output index) pair is consumed as an input more than once:
\* not by two transactions of the log, and not twice by one transaction.
C1_NoDoubleSpend ==
    LET emitted == Emitted
    IN  \A p, q \in InputPlaces(emitted) :
            p # q => InputAt(emitted, p) # InputAt(emitted, q)

\* C1, its case: a finished run whose log holds a treasury payment with two inputs
C1_Witness ==
    /\ pc = "done"
    /\ \E k \in DOMAIN transactions :
           /\ transactions[k].type = "treasury_outgoing"
           /\ Len(transactions[k].inputs) >= 2

\* the amount of the placeholder UTXO the transfer injected, if it injected one
PlaceholderAmount == IF PlaceholderSpent THEN one_btc_satoshis * 2 ELSE 0

\* C2 as stated: for each wallet the live UTXO amounts sum to what the emitted
\* transactions sent to it less what they spent from it.
C2_Conservation ==
    \A w \in Range(WalletIds) : TotalAmount(utxos[w]) = Received(w) - Spent(w)

\* C2 as amended: conservation holds for the invoicing and checking wallets,
\* and for the treasury once the amount of the placeholder UTXO is counted as
\* received when the transfer injected one.
C2_ConservationWithPlaceholder ==
    /\ TotalAmount(utxos["A"]) = Received("A") - Spent("A")
    /\ TotalAmount(utxos["C"]) = Received("C") - Spent("C")
    /\ TotalAmount(utxos["B"]) = Received("B") + PlaceholderAmount - Spent("B")

\* C2, its case: a run that spent from every wallet, with and without change
C2_Witness ==
    /\ pc = "done"
    /\ ~PlaceholderSpent
    /\ OfType("treasury_outgoing") # <<>>
    /\ \E k \in DOMAIN utxos["B"] : utxos["B"][k].vout = 1

\* C3 as stated: every live UTXO has a non-negative amount, so no balance is
\* negative.
C3_NeverNegative ==
    \A w \in Range(WalletIds) : \A k \in DOMAIN utxos[w] : utxos[w][k].amount >= 0

\* the amounts of the vendor payments emitted so far
VendorAmounts == LET amount(tx) == tx.satoshis IN Map(OfType("vendor_payment"), amount)

\* C4: from the transfer on, the checking wallet holds exactly one UTXO, whose
\* amount is the transferred unit less the vendor payments emitted so far.
C4_VendorChain ==
    Transferred =>
        /\ Len(utxos["C"]) = 1
        /\ utxos["C"][1].amount = COIN - SumSeq(VendorAmounts)
        /\ Len(VendorAmounts) <= NumVendorPayments

\* C4, its case: all vendor payments made, of different amounts
C4_Witness ==
    /\ Len(VendorAmounts) = NumVendorPayments
    /\ \E k \in DOMAIN VendorAmounts : VendorAmounts[k] # VendorAmounts[1]
    /\ Len(utxos["C"]) = 1

\* C5 as stated: the single input of a vendor payment is the (txid, output
\* index) of the checking wallet's live UTXO right before the payment, and the
\* payment replaces that UTXO by a change UTXO of the residual amount.
C5_ChainedChange ==
    [][(pc = "vendor_loop" /\ i' = i + 1) =>
          /\ Len(utxos["C"]) = 1
          /\ txs'[Len(txs')].inputs = InputsOf(utxos["C"])
          /\ Len(utxos'["C"]) = 1
          /\ utxos'["C"][1].txid = txs'[Len(txs')].txid
          /\ utxos'["C"][1].amount = utxos["C"][1].amount - txs'[Len(txs')].satoshis
      ]_vars

\* C5, what the code does instead: a later payment names output 0 of the
\* previous payment while the live change UTXO is its output 1
C5_Divergence ==
    /\ pc = "vendor_loop"
    /\ i >= 2
    /\ txs[Len(txs)].inputs = <<[txid |-> <<"vendor_payment", i - 2>>, vout |-> 0]>>

\* a step of the special treasury phase that emits an outgoing payment
OutgoingPaid == pc = "special_loop" /\ i < NumOutgoing /\ Len(txs') = Len(txs) + 1

\* a step of the special treasury phase that skips an outgoing payment
OutgoingSkipped == pc = "special_loop" /\ i < NumOutgoing /\ Len(txs') = Len(txs)

\* the place in a ledger of the UTXO an input names, 0 when it names none
PlaceOf(ledger, ref) ==
    LET places == {k \in DOMAIN ledger :
                     ledger[k].txid = ref.txid /\ ledger[k].vout = ref.vout}
    IN  IF Cardinality(places) = 1 THEN CHOOSE k \in places : TRUE ELSE 0

\* u comes before v in the order "amount descending, ties in ledger order"
LargerFirst(ledger, k, j) ==
    \/ ledger[k].amount > ledger[j].amount
    \/ ledger[k].amount = ledger[j].amount /\ k < j

\* C6: an outgoing payment of target t is made only from a treasury balance
\* >= t; its inputs are, in order, the shortest prefix of the treasury's live
\* UTXOs by amount descending (ties in ledger order) whose amounts reach t;
\* and the change it returns is the total of exactly these inputs less t.
C6_GreedySelection ==
    [][OutgoingPaid =>
          LET ledger == utxos["B"]
              tx == txs'[Len(txs')]
              t == tx.satoshis
              place == [k \in DOMAIN tx.inputs |-> PlaceOf(ledger, tx.inputs[k])]
              chosen == Range(place)
              total == SumSeq([k \in DOMAIN place |-> ledger[place[k]].amount])
              last == ledger[place[Len(place)]].amount
              change == {u \in Range(utxos'["B"]) : u.txid = tx.txid}
          IN  /\ TotalAmount(ledger) >= t
              /\ Len(place) >= 1
              /\ \A k \in DOMAIN place : place[k] # 0
              /\ \A k, j \in DOMAIN place : k < j => LargerFirst(ledger, place[k], place[j])
              /\ \A j \in DOMAIN ledger :
                     j \notin chosen => LargerFirst(ledger, place[Len(place)], j)
              /\ total >= t
              /\ total - last < t
              /\ IF total - t > 0
                 THEN \E u \in change : change = {u} /\ u.vout = 1 /\ u.amount = total - t
                 ELSE change = {}
      ]_vars

\* C6, its case: a payment that needed two inputs and returned change
C6_Witness ==
    /\ pc = "special_loop"
    /\ txs # <<>>
    /\ txs[Len(txs)].type = "treasury_outgoing"
    /\ Len(txs[Len(txs)].inputs) >= 2
    /\ \E k \in DOMAIN utxos["B"] : utxos["B"][k].txid = txs[Len(txs)].txid

\* the step that emits the transfer
TransferStep == pc = "checking" /\ pc' = "vendor_loop"

\* C7 as stated: whenever the treasury's live balance covers the transfer
\* amount, the transfer's inputs are the greedy largest-first selection from
\* the treasury's live UTXOs.
C7_TransferUsesCoinSelection ==
    [][(TransferStep /\ TotalAmount(utxos["B"]) >= one_btc_satoshis) =>
          txs'[1].inputs = InputsOf(SelectUtxos(utxos["B"], one_btc_satoshis))
      ]_vars

\* C8 as stated: the transfer spends a placeholder UTXO only when the
\* treasury's live balance is below the transfer amount.
C8_PlaceholderOnlyWhenShort ==
    [][(TransferStep /\ PlaceholderSpent') => TotalAmount(utxos["B"]) < one_btc_satoshis
      ]_vars

\* the transfer step added value to the treasury that no transaction paid in:
\* the treasury's balance did not fall by the transferred amount
ValueInjected == TotalAmount(utxos'["B"]) # TotalAmount(utxos["B"]) - one_btc_satoshis

\* C9: a transfer that injects value names the placeholder's synthetic txid as
\* its only input, a transfer that injects none names it in no input; no
\* transaction of the log has that txid and no other transaction names it.
C9_PlaceholderFlagged ==
    [][/\ TransferStep =>
            IF ValueInjected
            THEN txs'[1].inputs = <<[txid |-> DummyTxid, vout |-> 0]>>
            ELSE \A k \in DOMAIN txs'[1].inputs : txs'[1].inputs[k].txid # DummyTxid
       /\ \A k \in DOMAIN Emitted' :
            /\ Emitted'[k].txid # DummyTxid
            /\ Emitted'[k].type # "transfer" =>
                 \A j \in DOMAIN InputRefs(Emitted'[k]) :
                     InputRefs(Emitted'[k])[j].txid # DummyTxid
      ]_vars

\* C9, its case: a finished run whose transfer spent the placeholder
C9_Witness == pc = "done" /\ PlaceholderSpent

\* C10: an outgoing payment is skipped only when some target the draw can give
\* exceeds the treasury's live balance, a payment made never exceeds it, and a
\* skip leaves the phase's list, every ledger and the block height counter as
\* they were and moves on to the next payment; a finished run has emitted
\* every incoming payment.
C10_SkipChangesNothing ==
    [][/\ OutgoingSkipped =>
            /\ \E draw \in OutgoingDraws : OutgoingSatoshis(draw) > TotalAmount(utxos["B"])
            /\ txs' = txs
            /\ transactions' = transactions
            /\ utxos' = utxos
            /\ curr_block_height' = curr_block_height
            /\ i' = i + 1
            /\ pc' = pc
       /\ OutgoingPaid => txs'[Len(txs')].satoshis <= TotalAmount(utxos["B"])
       /\ pc' = "done" => Len(LET is(tx) == tx.type = "treasury_incoming"
                               IN Filter(transactions', is)) = Len(IncomingPlan)
      ]_vars

\* C10, its case: a finished run that skipped an outgoing payment and then
\* made the next one
C10_Witness ==
    /\ pc = "done"
    /\ \E k \in DOMAIN transactions : transactions[k].txid = <<"treasury_outgoing", 1>>
    /\ \A k \in DOMAIN transactions : transactions[k].txid # <<"treasury_outgoing", 0>>

\* the number of transactions of a type in the log
LogCount(t) == Cardinality({k \in DOMAIN transactions : TypeOf(transactions[k]) = t})

\* C11: the log of a completed run holds exactly the configured number of
\* invoice transactions, exactly one transfer, exactly the configured number
\* of vendor payments and exactly two treasury_incoming transactions, whatever
\* dates and amounts were drawn.
C11_FixedCounts ==
    pc \in {"save", "done"} =>
        /\ LogCount("invoice") = NumInvoices
        /\ LogCount("transfer") = 1
        /\ LogCount("vendor_payment") = NumVendorPayments
        /\ LogCount("treasury_incoming") = 2

\* C11, its case: a completed run whose invoices differ in date and in amount
\* and whose vendor payments overdraw the checking wallet
C11_Witness ==
    /\ pc = "done"
    /\ \E k, j \in DOMAIN transactions :
           /\ transactions[k].type = "invoice"
           /\ transactions[j].type = "invoice"
           /\ transactions[k].date # transactions[j].date
           /\ transactions[k].satoshis # transactions[j].satoshis
    /\ utxos["C"][1].amount < 0

\* C12 as stated: the log of a completed run holds exactly the configured
\* number of treasury_outgoing transactions.
C12_OutgoingCount ==
    pc \in {"save", "done"} => LogCount("treasury_outgoing") = NumOutgoing

\* the invoice transactions of the log, in log order
Invoices == LET is(tx) == TypeOf(tx) = "invoice" IN Filter(transactions, is)

\* generate_invoice_transactions has returned
InvoicePhaseOver == pc \notin {"exchange_rates", "generate_wallets", "invoice"}

\* C13: after the invoice phase the invoice transactions in log order have
\* non-decreasing dates and the block heights 100, 101, 102, ..., and every
\* live UTXO of the invoicing wallet carries the block height of the invoice
\* transaction of its txid.
C13_InvoiceHeights ==
    InvoicePhaseOver =>
        LET invoices == Invoices
            ledger == utxos["A"]
        IN  /\ \A k \in DOMAIN invoices : invoices[k].block_height = 100 + (k - 1)
            /\ \A k, j \in DOMAIN invoices : k < j => invoices[k].date <= invoices[j].date
            /\ \A n \in DOMAIN ledger :
                   /\ \E k \in DOMAIN invoices : invoices[k].txid = ledger[n].txid
                   /\ \A k \in DOMAIN invoices :
                          invoices[k].txid = ledger[n].txid =>
                              invoices[k].block_height = ledger[n].block_height

\* C13, its case: the sort moved a later invoice ahead of an earlier one and
\* kept two invoices of one date in generation order, with the UTXOs still live
C13_Witness ==
    /\ pc = "consolidation"
    /\ Len(utxos["A"]) = NumInvoices
    /\ \E k, j \in DOMAIN Invoices : k < j /\ Invoices[k].txid[2] > Invoices[j].txid[2]
    /\ \E k, j \in DOMAIN Invoices : k < j /\ Invoices[k].date = Invoices[j].date

\* C14: after the invoice phase the invoicing wallet's ledger holds exactly one
\* UTXO per invoice transaction, with that transaction's txid, output index 0,
\* the transaction's subunit amount and an address of the invoicing wallet's
\* pool; the treasury and checking ledgers are empty.
C14_OneUtxoPerInvoice ==
    pc = "consolidation" =>
        LET invoices == Invoices
            ledger == utxos["A"]
            pool == Range(AddressesOf("A"))
        IN  /\ Len(invoices) = NumInvoices
            /\ Len(ledger) = Len(invoices)
            /\ \A k \in DOMAIN invoices :
                   \E n \in DOMAIN ledger :
                       /\ ledger[n].txid = invoices[k].txid
                       /\ ledger[n].vout = 0
                       /\ ledger[n].amount = invoices[k].satoshis
                       /\ ledger[n].address \in pool
                       /\ \A m \in DOMAIN ledger :
                              ledger[m].txid = invoices[k].txid => m = n
            /\ utxos["B"] = <<>>
            /\ utxos["C"] = <<>>

\* C14, its case: the invoice phase is over, with invoices of different
\* amounts whose ledger order is not the log order
C14_Witness ==
    /\ pc = "consolidation"
    /\ \E k, j \in DOMAIN Invoices : Invoices[k].satoshis # Invoices[j].satoshis
    /\ \E k \in DOMAIN Invoices : utxos["A"][k].txid # Invoices[k].txid

\* the two nested loops of generate_consolidation_transactions have ended
ConsolidationPhaseOver ==
    \/ pc = "consolidation_loop" /\ utxo_chunks = <<>>
    \/ pc \in {"checking", "vendor_loop", "special", "special_loop", "save", "done"}

\* the consolidation transactions emitted so far, in emission order
Consolidations == OfType("consolidation")

\* the two-month buckets of a year
Buckets == 0..5

\* the bucket of every invoice of the log: the bucket of the invoicing-wallet
\* UTXO it minted
InvoicePeriods == LET invoices == Invoices IN [k \in DOMAIN invoices |-> PeriodOf(invoices[k])]

\* the bucket of every consolidation transaction emitted so far
ConsolidationPeriods ==
    LET consolidations == Consolidations
    IN  [k \in DOMAIN consolidations |-> consolidations[k].txid[2]]

\* the number of entries of a list of buckets that are bucket p
BucketSize(periods, p) == Cardinality({k \in DOMAIN periods : periods[k] = p})

Min(a, b) == IF a <= b THEN a ELSE b

\* C15: once the consolidation loops have ended, a bucket of n invoicing UTXOs
\* and chunk target k (NumConsolidations for the first five buckets, one more
\* for the last) has produced exactly min(n, k) consolidation transactions, so
\* an empty bucket has produced none; and no consolidation transaction ever
\* has an empty input list.
C15_ConsolidationCount ==
    /\ ConsolidationPhaseOver =>
           LET minted == InvoicePeriods
               made == ConsolidationPeriods
           IN  \A p \in Buckets :
                   BucketSize(made, p) =
                       Min(BucketSize(minted, p),
                           IF p < 5 THEN NumConsolidations ELSE NumConsolidations + 1)
    /\ LET consolidations == Consolidations
       IN  \A k \in DOMAIN consolidations : consolidations[k].inputs # <<>>

\* C15, its case: the phase has ended with the first four buckets empty, the
\* last bucket short of its chunk target and the fifth bucket not
C15_Witness ==
    /\ pc = "checking"
    /\ LET minted == InvoicePeriods
       IN  /\ BucketSize(minted, 5) = 1
           /\ BucketSize(minted, 4) >= NumConsolidations
           /\ \A p \in 0..3 : BucketSize(minted, p) = 0

\* C16: once the consolidation loops have ended, the UTXO of every invoice
\* (the invoicing-wallet UTXOs live at the start of the phase) is named by
\* exactly one input of exactly one consolidation transaction, the inputs of a
\* consolidation transaction are all UTXOs of invoices of that transaction's
\* bucket, and the input counts of two consolidation transactions of one
\* bucket differ by at most one.
C16_ConsolidationPartitions ==
    ConsolidationPhaseOver =>
        LET invoices == Invoices
            minted == InvoicePeriods
            consolidations == Consolidations
            made == ConsolidationPeriods
            places == UNION {{<<k, j>> : j \in DOMAIN consolidations[k].inputs} :
                               k \in DOMAIN consolidations}
            names(p, n) ==
                consolidations[p[1]].inputs[p[2]] = [txid |-> invoices[n].txid, vout |-> 0]
        IN  /\ \A n \in DOMAIN invoices :
                   Cardinality({p \in places : names(p, n)}) = 1
            /\ \A p \in places :
                   \E n \in DOMAIN invoices : names(p, n) /\ minted[n] = made[p[1]]
            /\ \A k, j \in DOMAIN consolidations :
                   made[k] = made[j] =>
                       Len(consolidations[k].inputs) - Len(consolidations[j].inputs)
                           \in {-1, 0, 1}

\* C16, its case: the phase has ended and a bucket of more invoices than its
\* chunk target was split into chunks of different sizes
C16_Witness ==
    /\ pc = "checking"
    /\ LET consolidations == Consolidations
       IN  \E k, j \in DOMAIN consolidations :
               /\ consolidations[k].txid[2] = consolidations[j].txid[2]
               /\ Len(consolidations[k].inputs) = Len(consolidations[j].inputs) + 1

\* a step of the consolidation loop that emits a consolidation transaction
ConsolidationEmitted == pc = "consolidation_loop" /\ Len(txs') = Len(txs) + 1

\* C17: a step that emits a consolidation transaction removes from the
\* invoicing wallet exactly the live UTXOs its inputs name, one per input, and
\* appends to the treasury exactly one UTXO, of the transaction's txid, whose
\* amount is the sum of the amounts of the removed UTXOs; when the phase ends
\* the invoicing wallet has no live UTXO and the treasury balance is the sum
\* of all invoice amounts.
C17_ConsolidationConserves ==
    [][/\ ConsolidationEmitted =>
            LET tx == txs'[Len(txs')]
                spent(u) == \E k \in DOMAIN tx.inputs :
                                tx.inputs[k] = [txid |-> u.txid, vout |-> u.vout]
                kept(u) == ~spent(u)
                removed == Filter(utxos["A"], spent)
                minted == utxos'["B"][Len(utxos'["B"])]
            IN  /\ tx.type = "consolidation"
                /\ Len(removed) = Len(tx.inputs)
                /\ \A k \in DOMAIN tx.inputs :
                       \E n \in DOMAIN removed :
                           tx.inputs[k] = [txid |-> removed[n].txid, vout |-> removed[n].vout]
                /\ utxos'["A"] = Filter(utxos["A"], kept)
                /\ Len(utxos'["B"]) = Len(utxos["B"]) + 1
                /\ SubSeq(utxos'["B"], 1, Len(utxos["B"])) = utxos["B"]
                /\ minted.txid = tx.txid
                /\ minted.amount = TotalAmount(removed)
                /\ tx.satoshis = TotalAmount(removed)
                /\ utxos'["C"] = utxos["C"]
       /\ (pc = "consolidation_loop" /\ pc' = "checking") =>
            /\ utxos'["A"] = <<>>
            /\ TotalAmount(utxos'["B"]) =
                   LET amount(tx) == tx.satoshis IN SumSeq(Map(Invoices', amount))
      ]_vars

\* C17, its case: the phase has ended after a consolidation of two invoices
\* of different amounts
C17_Witness ==
    /\ pc = "checking"
    /\ utxos["A"] = <<>>
    /\ LET invoices == Invoices
           consolidations == Consolidations
       IN  \E c \in DOMAIN consolidations, k, j \in DOMAIN invoices :
               /\ Len(consolidations[c].inputs) = 2
               /\ consolidations[c].inputs[1].txid = invoices[k].txid
               /\ consolidations[c].inputs[2].txid = invoices[j].txid
               /\ invoices[k].satoshis # invoices[j].satoshis

\* the step that aggregates
Aggregated == pc = "save" /\ pc' = "done"

\* C18: save_all_transactions leaves a log that is a permutation of the log
\* before it, with block_height non-decreasing along it, in which two
\* transactions of equal block height are in their order of before.
C18_SortedByBlockHeight ==
    [][Aggregated =>
          /\ Len(transactions') = Len(transactions)
          /\ \A k, j \in DOMAIN transactions' :
                 k < j => transactions'[k].block_height <= transactions'[j].block_height
          /\ \E from \in [DOMAIN transactions' -> DOMAIN transactions] :
                 /\ \A k, j \in DOMAIN transactions' : k # j => from[k] # from[j]
                 /\ \A k \in DOMAIN transactions' : transactions'[k] = transactions[from[k]]
                 /\ \A k, j \in DOMAIN transactions' :
                        (k < j /\ transactions'[k].block_height = transactions'[j].block_height)
                            => from[k] < from[j]
      ]_vars

\* C18, its case: an aggregated log in which a later record was moved ahead of
\* an earlier one and two records of one block height follow each other
C18_Witness ==
    /\ pc = "done"
    /\ \E k, j \in DOMAIN transactions :
           k < j /\ transactions[k].txid[2] > transactions[j].txid[2]
    /\ \E k, j \in DOMAIN transactions :
           /\ k < j
           /\ transactions[k].block_height = transactions[j].block_height
           /\ transactions[k].txid[2] < transactions[j].txid[2]

\* the wallet ids the simulator tracks
Tracked == Range(WalletIds)

\* the count the summary holds for a wallet key, 0 when it has no such key
SummaryCount(w, side) ==
    IF w \in DOMAIN summary.wallets THEN summary.wallets[w][side] ELSE 0

\* C19 as stated: every key of the summary's per-wallet table is a tracked
\* wallet id or "external", and the transactions whose destination (source) is
\* no tracked wallet are counted as incoming (outgoing) under "external".
C19_ExternalBucket ==
    pc = "done" =>
        /\ DOMAIN summary.wallets \subseteq Tracked \cup {"external"}
        /\ SummaryCount("external", "incoming") =
               Cardinality({k \in DOMAIN transactions :
                              DestinationOf(transactions[k]) \notin Tracked})
        /\ SummaryCount("external", "outgoing") =
               Cardinality({k \in DOMAIN transactions :
                              SourceOf(transactions[k]) \notin Tracked})

\* C20 as stated: for each tracked wallet the summary's incoming count is the
\* number of logged transactions whose destination is that wallet and its
\* outgoing count the number whose source is that wallet; so the invoicing
\* wallet has as many incoming as there are invoices and as many outgoing as
\* there are consolidations.
C20_SummaryCounts ==
    pc = "done" =>
        /\ \A w \in Tracked :
               /\ SummaryCount(w, "incoming") =
                      Cardinality({k \in DOMAIN transactions :
                                     DestinationOf(transactions[k]) = w})
               /\ SummaryCount(w, "outgoing") =
                      Cardinality({k \in DOMAIN transactions :
                                     SourceOf(transactions[k]) = w})
        /\ SummaryCount("A", "incoming") = LogCount("invoice")
        /\ SummaryCount("A", "outgoing") = LogCount("consolidation")

\* the sum of the values a table of counts holds for the keys of S
RECURSIVE SetSum(_, _)
SetSum(table, S) ==
    IF S = {} THEN 0
    ELSE LET w == CHOOSE w \in S : TRUE IN table[w] + SetSum(table, S \ {w})

\* C21: in the summary of a completed run total_transactions is the length of
\* the log, every type of a logged transaction has a count, each type's count
\* is the number of logged transactions of that type, the type counts sum to
\* total_transactions, and so do the incoming counts of all buckets and the
\* outgoing counts of all buckets.
C21_SummaryTotals ==
    pc = "done" =>
        LET log == transactions
            total == summary.total_transactions
            types == summary.transaction_types
            table == summary.wallets
            incoming == [w \in DOMAIN table |-> table[w].incoming]
            outgoing == [w \in DOMAIN table |-> table[w].outgoing]
        IN  /\ total = Len(log)
            /\ \A k \in DOMAIN log : TypeOf(log[k]) \in DOMAIN types
            /\ \A t \in DOMAIN types :
                   types[t] = Cardinality({k \in DOMAIN log : TypeOf(log[k]) = t})
            /\ SetSum(types, DOMAIN types) = total
            /\ SetSum(incoming, DOMAIN table) = total
            /\ SetSum(outgoing, DOMAIN table) = total

\* C21, its case: the summary of a run that skipped every outgoing payment, so
\* that one of the six types has no count
C21_Witness ==
    /\ pc = "done"
    /\ summary.total_transactions = Len(transactions)
    /\ "treasury_outgoing" \notin DOMAIN summary.transaction_types
    /\ "treasury_incoming" \in DOMAIN summary.transaction_types

\* C22: no step changes a record of the global log: a step of a phase leaves
\* the records logged so far in place and at most appends records after them,
\* and the aggregator leaves a log of the same records (each as often as
\* before), changing their order at most.
C22_LoggedRecordsImmutable ==
    [][IF Aggregated
       THEN /\ Len(transactions') = Len(transactions)
            /\ \A k \in DOMAIN transactions :
                   Cardinality({j \in DOMAIN transactions' :
                                  transactions'[j] = transactions[k]})
                       = Cardinality({j \in DOMAIN transactions :
                                        transactions[j] = transactions[k]})
       ELSE /\ Len(transactions') >= Len(transactions)
            /\ SubSeq(transactions', 1, Len(transactions)) = transactions
      ]_vars

\* C22, its case: the aggregator has run on a log to which all four phases
\* appended, the consolidation phase three records
C22_Witness ==
    /\ pc = "done"
    /\ LogCount("consolidation") = 3
    /\ LogCount("treasury_outgoing") = NumOutgoing

\* the live UTXOs of all wallets
LiveUtxos == utxos["A"] \o utxos["B"] \o utxos["C"]

\* C24: in every state no two live UTXOs, of one wallet or of two, have the
\* same (txid, output index) pair.
C24_UniqueUtxoIdentity ==
    LET live == LiveUtxos
    IN  \A k, j \in DOMAIN live :
            k < j => <<live[k].txid, live[k].vout>> # <<live[j].txid, live[j].vout>>

\* C24, its case: the two outputs of the transfer are live, output 0 in the
\* checking wallet and output 1 in the treasury
C24_Witness ==
    /\ \E k \in DOMAIN utxos["C"] :
           utxos["C"][k].txid = <<"treasury_to_checking">> /\ utxos["C"][k].vout = 0
    /\ \E k \in DOMAIN utxos["B"] :
           utxos["B"][k].txid = <<"treasury_to_checking">> /\ utxos["B"][k].vout = 1
    /\ Len(utxos["B"]) >= 2

\* the positions of a run, in the order of __init__ and main()
PcOrder ==
    <<"exchange_rates", "generate_wallets", "invoice", "consolidation",
      "consolidation_loop", "checking", "vendor_loop", "special", "special_loop",
      "save", "done">>

PcIndex(position) == CHOOSE k \in DOMAIN PcOrder : PcOrder[k] = position

\* the iterations the loop of the current position still has to make
LoopRemaining ==
    CASE pc = "exchange_rates" -> EndDate + 1 - rate_walk.current_date
      [] pc = "invoice" -> NumInvoices - i
      [] pc = "consolidation_loop" -> Len(utxo_chunks)
      [] pc = "vendor_loop" -> NumVendorPayments - i
      [] pc = "special_loop" -> NumOutgoing + Len(IncomingPlan) - i
      [] OTHER -> 0

\* the statement at the current position finds what it reads: the loops find
\* their counter within its range, consolidation a receiving UTXO, the transfer
\* a treasury UTXO, a vendor payment a checking UTXO, the special treasury
\* phase both ledgers and the treasury's addresses
CanExecute ==
    CASE pc = "invoice" -> i <= NumInvoices
      [] pc = "consolidation" -> utxos["A"] # <<>>
      [] pc = "checking" -> utxos["B"] # <<>>
      [] pc = "vendor_loop" -> i <= NumVendorPayments /\ utxos["C"] # <<>>
      [] pc = "special" -> utxos["B"] # <<>> /\ utxos["C"] # <<>>
      [] pc = "special_loop" ->
            i <= NumOutgoing + Len(IncomingPlan) /\ AddressesOf("B") # <<>>
      [] OTHER -> pc \in Range(PcOrder)

C26_RateLookup ==
    /\ [](pc # "exchange_rates" =>
            LET rates == exchange_rates
                nearest(date) ==
                    LET distances == {Abs(d - date) : d \in DOMAIN rates}
                        least == CHOOSE n \in distances : \A m \in distances : n <= m
                    IN  IF date - least \in DOMAIN rates THEN date - least
                        ELSE date + least
                emitted == Emitted
            IN  /\ DOMAIN rates = StartDate..EndDate
                /\ \A d \in DOMAIN rates : rates[d] > 0
                /\ \A k \in DOMAIN emitted :
                      "usd_amount" \in DOMAIN emitted[k] =>
                          /\ emitted[k].btc_amount.num = emitted[k].usd_amount
                          /\ emitted[k].btc_amount.den =
                                IF emitted[k].date \in DOMAIN rates
                                THEN rates[emitted[k].date]
                                ELSE rates[nearest(emitted[k].date)])
    /\ [][pc # "exchange_rates" => exchange_rates' = exchange_rates]_vars

\* C26, its case: a finished run that converted on a date in the table and on a
\* date absent from it, over a table whose first and last entries differ
C26_Witness ==
    /\ pc = "done"
    /\ exchange_rates[StartDate] # exchange_rates[EndDate]
    /\ \E k \in DOMAIN transactions :
          "usd_amount" \in DOMAIN transactions[k] /\ transactions[k].date \in DOMAIN exchange_rates
    /\ \E k \in DOMAIN transactions :
          "usd_amount" \in DOMAIN transactions[k] /\ transactions[k].date \notin DOMAIN exchange_rates


\* a step that spends from the treasury with change: the transfer or an
\* outgoing payment that is not skipped
TreasurySpent == TransferStep \/ OutgoingPaid

\* what C27 says of such a step, with the amount the transfer's placeholder
\* brought in counted as "injected"
TreasurySpendOutcome(injected) ==
    LET before == utxos["B"]
        after == utxos'["B"]
        tx == txs'[Len(txs')]
        named(u) == \E k \in DOMAIN tx.inputs :
                        tx.inputs[k] = [txid |-> u.txid, vout |-> u.vout]
        spent == {k \in DOMAIN before : named(before[k])}
        input_total == SetSum([k \in spent |-> before[k].amount], spent) + injected
        change == {k \in DOMAIN after : after[k].txid = tx.txid}
    IN  /\ \A k \in DOMAIN after : ~named(after[k])
        /\ IF input_total - tx.satoshis > 0
           THEN \E k \in change :
                   /\ change = {k}
                   /\ after[k].vout = 1
                   /\ after[k].amount = input_total - tx.satoshis
           ELSE change = {}
        /\ TotalAmount(after) = TotalAmount(before) + injected - tx.satoshis

\* C27: after the transfer and after every outgoing payment that is not
\* skipped, the spent inputs are no longer live, a change UTXO with the
\* spending txid, output index 1 and amount (input total - payment amount) is
\* in the treasury if and only if that amount is positive, and the treasury
\* balance is exactly the payment amount lower than before the inputs were
\* chosen.
C27_TreasurySpend == [][TreasurySpent => TreasurySpendOutcome(0)]_vars

\* C27 amended: the same, with the amount of the placeholder UTXO counted as
\* part of the inputs and of the earlier balance when the transfer injected it
C27_TreasurySpendWithPlaceholder ==
    [][TreasurySpent =>
          TreasurySpendOutcome(IF TransferStep /\ txs'[1].inputs[1].txid = DummyTxid
                               THEN one_btc_satoshis * 2 ELSE 0)]_vars

\* C27, its case: the transfer injected the placeholder and returned its
\* change, and a later outgoing payment returned change as well
C27_Witness ==
    /\ pc = "special_loop"
    /\ i = NumOutgoing
    /\ PlaceholderSpent
    /\ \E k \in DOMAIN utxos["B"] :
          utxos["B"][k].vout = 1 /\ utxos["B"][k].txid[1] = "treasury_outgoing"


\* C28: an outgoing payment of target t that is not skipped has the fewest
\* inputs that can pay t: no set of live treasury UTXOs with fewer elements
\* than its inputs has a total >= t, and without its last-selected input,
\* which is its smallest, the total of its inputs is below t.
C28_FewestInputs ==
    [][OutgoingPaid =>
          LET ledger == utxos["B"]
              tx == txs'[Len(txs')]
              t == tx.satoshis
              amounts == [k \in DOMAIN ledger |-> ledger[k].amount]
              place == [k \in DOMAIN tx.inputs |-> PlaceOf(ledger, tx.inputs[k])]
              selected == Range(place)
              last == place[Len(place)]
          IN  /\ 0 \notin selected
              /\ Cardinality(selected) = Len(place)
              /\ SetSum(amounts, selected) >= t
              /\ \A S \in SUBSET DOMAIN ledger :
                     Cardinality(S) < Cardinality(selected) => SetSum(amounts, S) < t
              /\ \A k \in selected : amounts[last] <= amounts[k]
              /\ SetSum(amounts, selected \ {last}) < t
      ]_vars

\* C28, its case: a payment that no single treasury UTXO could make and that
\* took three inputs
C28_Witness ==
    /\ pc = "special_loop"
    /\ txs # <<>>
    /\ txs[Len(txs)].type = "treasury_outgoing"
    /\ Len(txs[Len(txs)].inputs) = 3


TypeRank(type) ==
    CASE type = "invoice" -> 1
      [] type = "consolidation" -> 2
      [] type = "transfer" -> 3
      [] type = "vendor_payment" -> 4
      [] type = "treasury_outgoing" -> 5
      [] type = "treasury_incoming" -> 6
      [] OTHER -> 0

\* C30: once the invoices are logged, every emitted transaction has a block
\* height strictly above that of every transaction emitted before it, within a
\* phase and across phases, so that no two share a block height; the emitted
\* transactions are all invoices, then consolidations, then the transfer, then
\* vendor payments, then treasury outgoing, then treasury incoming; and the
\* aggregator's sort leaves the log as it was, in emission order.
C30_HeightsFollowEmission ==
    /\ [](InvoicePhaseOver =>
            LET emitted == Emitted
            IN  \A k, j \in DOMAIN emitted :
                    k < j => /\ emitted[k].block_height < emitted[j].block_height
                             /\ TypeRank(TypeOf(emitted[k])) <= TypeRank(TypeOf(emitted[j]))
                             /\ TypeRank(TypeOf(emitted[k])) >= 1)
    /\ [][Aggregated => transactions' = transactions]_vars

\* C30, its case: the aggregator has sorted the log of a run that made both
\* vendor payments, an outgoing payment and both incoming payments
C30_Witness ==
    /\ pc = "done"
    /\ \A type \in {"invoice", "consolidation", "transfer", "vendor_payment",
                    "treasury_outgoing", "treasury_incoming"} :
           \E k \in DOMAIN transactions : transactions[k].type = type


\* the types of the transactions that spend tracked UTXOs they name
SpendingTypes == {"consolidation", "transfer", "treasury_outgoing"}

\* a step that emits a transaction of one of these types
SpendEmitted == ConsolidationEmitted \/ TransferStep \/ OutgoingPaid

\* C31: every input of a consolidation, transfer or treasury_outgoing
\* transaction names a (txid, output index) that was a live UTXO of the
\* transaction's source wallet immediately before the transaction was built
\* (for the transfer: after its search for a treasury UTXO, which appends the
\* placeholder when it finds none); from the transaction on that UTXO is live
\* in no wallet, in every later state.
C31_InputsSpendLive ==
    /\ [](LET emitted == Emitted
              live == LiveUtxos
          IN  \A k \in DOMAIN emitted :
                  TypeOf(emitted[k]) \in SpendingTypes =>
                      \A j \in DOMAIN emitted[k].inputs :
                          \A u \in DOMAIN live :
                              [txid |-> live[u].txid, vout |-> live[u].vout]
                                  # emitted[k].inputs[j])
    /\ [][SpendEmitted =>
            LET tx == txs'[Len(txs')]
                before == IF TransferStep
                          THEN TreasuryAfterSearch(utxos["B"], tx.block_height)
                          ELSE utxos[tx.wallet_from]
            IN  /\ tx.type \in SpendingTypes
                /\ tx.inputs # <<>>
                /\ \A j \in DOMAIN tx.inputs : PlaceOf(before, tx.inputs[j]) # 0
       ]_vars

\* C31, its case: a finished run whose transfer spent the placeholder and
\* whose log holds an outgoing payment with two or more inputs
C31_Witness ==
    /\ pc = "done"
    /\ PlaceholderSpent
    /\ \E k \in DOMAIN transactions :
           /\ transactions[k].type = "treasury_outgoing"
           /\ Len(transactions[k].inputs) >= 2
    /\ \E k \in DOMAIN transactions :
           /\ transactions[k].type = "consolidation"
           /\ Len(transactions[k].inputs) >= 2


\* C32: in every state no wallet's ledger holds two live UTXOs of one txid, so
\* that a removal, which filters the ledger by txid only, takes out of the
\* source wallet's ledger exactly the UTXOs the spending transaction names as
\* inputs: every other UTXO that was live stays as it was, and the change UTXO
\* of the same spend is live afterwards.
C32_RemovalByTxidPrecise ==
    /\ [](\A w \in Range(WalletIds) :
              \A k, j \in DOMAIN utxos[w] : k < j => utxos[w][k].txid # utxos[w][j].txid)
    /\ [][SpendEmitted =>
            LET tx == txs'[Len(txs')]
                before == IF TransferStep
                          THEN TreasuryAfterSearch(utxos["B"], tx.block_height)
                          ELSE utxos[tx.wallet_from]
                after == utxos'[tx.wallet_from]
                named(u) == \E j \in DOMAIN tx.inputs :
                                tx.inputs[j] = [txid |-> u.txid, vout |-> u.vout]
                spent == {k \in DOMAIN before : named(before[k])}
                change == SetSum([k \in spent |-> before[k].amount], spent) - tx.satoshis
            IN  /\ Cardinality(spent) = Len(tx.inputs)
                /\ \A k \in DOMAIN before :
                       named(before[k]) <=> before[k] \notin Range(after)
                /\ (tx.type # "consolidation" /\ change > 0) =>
                       \E k \in DOMAIN after :
                           /\ after[k].txid = tx.txid
                           /\ after[k].amount = change
       ]_vars

\* C32, its case: an outgoing payment has spent one treasury UTXO and returned
\* change while three other treasury UTXOs stayed live
C32_Witness ==
    /\ pc = "special_loop"
    /\ txs # <<>>
    /\ txs[Len(txs)].type = "treasury_outgoing"
    /\ Len(txs[Len(txs)].inputs) = 1
    /\ Len(utxos["B"]) = 4
    /\ \E k \in DOMAIN utxos["B"] : utxos["B"][k].txid = txs[Len(txs)].txid


\* C33: each phase touches only its own wallets. A step of the invoice phase
\* leaves the treasury and checking ledgers unchanged, a step of the
\* consolidation phase the checking ledger, a step of the transfer and vendor
\* payment phase the invoicing ledger, and of these only the transfer changes
\* the treasury ledger; a step of the special treasury phase leaves the
\* invoicing and checking ledgers unchanged; and a step of any phase leaves
\* the records already in the global log in place.
C33_PhaseFrames ==
    [][/\ pc = "invoice" =>
              utxos'["B"] = utxos["B"] /\ utxos'["C"] = utxos["C"]
       /\ pc \in {"consolidation", "consolidation_loop"} => utxos'["C"] = utxos["C"]
       /\ pc \in {"checking", "vendor_loop"} => utxos'["A"] = utxos["A"]
       /\ pc = "vendor_loop" => utxos'["B"] = utxos["B"]
       /\ pc \in {"special", "special_loop"} =>
              utxos'["A"] = utxos["A"] /\ utxos'["C"] = utxos["C"]
       /\ pc \in {"invoice", "consolidation", "consolidation_loop", "checking",
                  "vendor_loop", "special", "special_loop"} =>
              /\ Len(transactions') >= Len(transactions)
              /\ \A k \in DOMAIN transactions : transactions'[k] = transactions[k]
      ]_vars

\* C33, its case: all four phases have run, every ledger has been written by
\* its phase, and the log holds the records of each
C33_Witness ==
    /\ pc = "save"
    /\ utxos["A"] = <<>>
    /\ Len(utxos["B"]) >= 2
    /\ \E k \in DOMAIN utxos["C"] : utxos["C"][k].txid[1] = "vendor_payment"
    /\ LogCount("treasury_incoming") = Len(IncomingPlan)
    /\ LogCount("vendor_payment") = NumVendorPayments


\* the endpoints the type of a transaction fixes
EndpointsAgree(tx) ==
    LET from(w) == "wallet_from" \in DOMAIN tx /\ tx.wallet_from = w
        to(w) == "wallet_to" \in DOMAIN tx /\ tx.wallet_to = w
    IN  /\ "type" \in DOMAIN tx
        /\ CASE tx.type = "invoice" -> "wallet" \in DOMAIN tx /\ tx.wallet = "A"
              [] tx.type = "consolidation" -> from("A") /\ to("B")
              [] tx.type = "transfer" -> from("B") /\ to("C")
              [] tx.type = "vendor_payment" -> from("C") /\ to("external")
              [] tx.type = "treasury_outgoing" -> from("B") /\ to("external")
              [] tx.type = "treasury_incoming" -> from("external") /\ to("B")
              [] OTHER -> FALSE

\* a step that emits a treasury_incoming transaction
IncomingEmitted ==
    pc = "special_loop" /\ i >= NumOutgoing /\ Len(txs') = Len(txs) + 1

====
